---- MODULE Spec2Model ----
(***************************************************************************)
(* EcoFlux-Exchange: the order registry (TransactionService), the order   *)
(* matcher (OrderMatcher), the order book (OrderBook), the contracts a    *)
(* match deploys, the verification service and the rate limiter, as the   *)
(* Python sources under src/ implement them.                              *)
(*                                                                         *)
(* Units.  Prices are integers counting 0.005 USD per kWh (20 = 0.10,     *)
(* 22 = 0.11, 24 = 0.12); every price drawn is even, so the midpoint      *)
(* (b + s) / 2 of the code is exact as (b + s) \div 2.  Quantities are    *)
(* kWh.  Time is a counter standing for datetime.utcnow().                *)
(*                                                                         *)
(* Identifiers.  uuid4 ids are modelled by fresh positive integers; 0     *)
(* stands for Python's None in the id-valued fields.                      *)
(***************************************************************************)
EXTENDS Integers, Sequences, FiniteSets, TLC

VARIABLES
    transactions,   \* trades.py:19  transaction_service.transactions (the registry)
    now,            \* the value datetime.utcnow() last returned
    books,          \* OrderBook.books: energy_type -> order_type -> list of entries
    contracts,      \* SmartContract objects created by ContractDeployer.deploy in _execute_match
    matched_orders, \* OrderMatcher.matched_orders (match records)
    em,             \* frame of an _execute_match call in progress (stepped specification)
    last,           \* outcome of the last operation (response or exception)
    verified_contracts, \* VerificationService.verified_contracts: contract id -> record
    verification_cache, \* VerificationService.verification_cache: cache key -> bool
    returned,       \* the answers verify has given so far, per (contract_id, transaction_hash)
    snap,           \* frame of an OrderBook.get_book call in progress, then its result
    rate_limit_storage, \* rate_limiter.py:13  client id -> list of request times
    rl              \* per request thread: its place in check_rate_limit

limiter == <<rate_limit_storage, rl>>

vars == <<transactions, now, books, contracts, matched_orders, em, last,
          verified_contracts, verification_cache, returned, snap, limiter>>

aside == <<verified_contracts, verification_cache, returned, snap, limiter>>
    \* what the trade routes and the matcher never touch

----------------------------------------------------------------------------
(* Bounds of the model *)

MaxOrders == 3

MaxContracts == 2

MaxClock == 5

MaxBook == 2

MaxThreads == 2

(* Inputs *)

None == 0

ValidEnergyTypes == {"solar", "wind", "hydro", "biomass"}

ValidOrderTypes == {"buy", "sell"}

Template == [energy_type |-> "solar", order_type |-> "buy", quantity |-> 100,
             price |-> 22, user_id |-> "u1"]

ValidTrades ==
    \* solar at quantity 100 on both sides and at both prices, one solar buy of
    \* another quantity, and one sell of another energy type
    {r \in [energy_type : {"solar", "wind"}, order_type : {"buy", "sell"},
            quantity : {100, 200}, price : {20, 22}, user_id : {"u1"}] :
        /\ r.quantity = 200 =>
              (r.energy_type = "solar" /\ r.order_type = "buy" /\ r.price = 22)
        /\ r.energy_type = "wind" => (r.order_type = "sell" /\ r.price = 20)}

InvalidTrades ==
    {[Template EXCEPT !.energy_type = "coal"],
     [Template EXCEPT !.order_type = "hold"],
     [Template EXCEPT !.quantity = 0],
     [Template EXCEPT !.price = 0]}

TradeInputs == ValidTrades \cup InvalidTrades

IdInputs == 1 .. (MaxOrders + 1)

Statuses == {"pending", "matched", "completed", "cancelled"}

----------------------------------------------------------------------------
(* Sequences *)

Range(s) == {s[k] : k \in 1 .. Len(s)}

KeyLessEq(a, b, sign) ==
    \* tuple comparison of the sort keys (sign * price, created_at):
    \* sign = 1 ascending price, sign = -1 descending price
    \/ sign * a.price < sign * b.price
    \/ (a.price = b.price /\ a.created_at <= b.created_at)

RECURSIVE InsertSorted(_, _, _)
InsertSorted(s, x, sign) ==
    \* x goes after every element whose key is <= its own (list.sort is stable)
    IF s = <<>> THEN <<x>>
    ELSE IF KeyLessEq(Head(s), x, sign)
         THEN <<Head(s)>> \o InsertSorted(Tail(s), x, sign)
         ELSE <<x>> \o s

RECURSIVE SortByPriceTime(_, _)
SortByPriceTime(s, sign) ==
    IF s = <<>> THEN <<>>
    ELSE InsertSorted(SortByPriceTime(SubSeq(s, 1, Len(s) - 1), sign), s[Len(s)], sign)

----------------------------------------------------------------------------
(* Python values that _find_best_match can hand to its caller *)

PyNone == [type |-> "NoneType", items |-> <<>>]

PyList(s) == [type |-> "list", items |-> s]

Truthy(v) == v.type # "NoneType" /\ (v.type = "list" => v.items # <<>>)

----------------------------------------------------------------------------
(* models/transaction.py *)

Transaction(id, energy_type, quantity, price, order_type, user_id, created_at) ==
    [id |-> id, energy_type |-> energy_type, quantity |-> quantity, price |-> price,
     order_type |-> order_type, user_id |-> user_id, status |-> "pending",
     created_at |-> created_at, matched_with |-> None, contract_id |-> None]

update_status(t, new_status) == [t EXCEPT !.status = new_status]

mark_matched(t, matched_transaction_id) ==
    update_status([t EXCEPT !.matched_with = matched_transaction_id], "matched")

mark_completed(t, contract_id) ==
    update_status([t EXCEPT !.contract_id = contract_id], "completed")

can_be_cancelled_unless_completed(t) == t.status # "completed"

can_be_cancelled(t) == t.status \in {"pending", "matched"}

----------------------------------------------------------------------------
(* services/transaction_service.py *)

FreshTransactionService == <<>>

create_transaction(txs, t) == Append(txs, t)

IndexOfId(txs, id) ==
    \* position of the first transaction with this id, 0 when there is none
    IF \E k \in 1 .. Len(txs) : txs[k].id = id
    THEN CHOOSE k \in 1 .. Len(txs) :
            txs[k].id = id /\ \A m \in 1 .. (k - 1) : txs[m].id # id
    ELSE 0

get_transaction_by_id(txs, id) == IndexOfId(txs, id)

get_pending_orders(txs, energy_type) ==
    LET IsPending(t) == t.status = "pending"
        OfType(t) == t.energy_type = energy_type
        pending == SelectSeq(txs, IsPending)
    IN  IF energy_type # "" THEN SelectSeq(pending, OfType) ELSE pending

cancel_transaction(txs, id) ==
    \* the registry after the call and the value returned
    LET k == get_transaction_by_id(txs, id) IN
    IF k = 0 THEN [txs |-> txs, ret |-> FALSE]
    ELSE IF ~can_be_cancelled(txs[k]) THEN [txs |-> txs, ret |-> FALSE]
    ELSE [txs |-> [txs EXCEPT ![k] = update_status(@, "cancelled")], ret |-> TRUE]

----------------------------------------------------------------------------
(* models/smart_contract.py, services/blockchain *)

_generate_hash(buyer_id, seller_id, energy_type, quantity, price, created_at) ==
    \* sha256 of the text built at line 52 (the fields one after the other, no
    \* separator); the digest is written as the text it digests
    "sha256(" \o buyer_id \o seller_id \o energy_type \o ToString(quantity)
              \o ToString(price) \o ToString(created_at) \o ")"

SmartContract(id, buyer_id, seller_id, energy_type, quantity, price, status, created_at) ==
    [id |-> id, buyer_id |-> buyer_id, seller_id |-> seller_id,
     energy_type |-> energy_type, quantity |-> quantity, price |-> price,
     total_value |-> quantity * price, status |-> status,
     created_at |-> created_at, deployed_at |-> None, executed_at |-> None,
     transaction_hash |-> _generate_hash(buyer_id, seller_id, energy_type,
                                         quantity, price, created_at),
     verification_status |-> "unverified", execution_time |-> None, gas_used |-> 0,
     match |-> <<>>]   \* match: the ids of the two orders whose match created it
                       \* (bookkeeping of the model, not a field of the class)

contract_deploy(c, t) == [c EXCEPT !.status = "active", !.deployed_at = t]

contract_execute(c, t, execution_time, gas) ==
    [c EXCEPT !.status = "completed", !.executed_at = t,
              !.execution_time = execution_time, !.gas_used = gas]

contract_verify(c) ==
    IF c.status = "completed" THEN [c EXCEPT !.verification_status = "verified"] ELSE c

contract_fail(c) == [c EXCEPT !.status = "failed"]

GasInputs == {1000, 5000}
    \* round(random.uniform(0.001, 0.005), 6), in millionths

SimulatedDelay == 1
    \* time.sleep(0.1): the measured execution_time, in tenths of a second

FreshSmartContractExecutor == <<>>

get_contract(cs, contract_id) ==
    IF \E k \in 1 .. Len(cs) : cs[k].id = contract_id
    THEN CHOOSE k \in 1 .. Len(cs) :
            cs[k].id = contract_id /\ \A m \in 1 .. (k - 1) : cs[m].id # contract_id
    ELSE 0

executor_refuses(cs, contract_id) ==
    \* SmartContractExecutor.execute lines 36-44: the exception raised, "" if none
    LET k == get_contract(cs, contract_id) IN
    IF k = 0 THEN "ValueError"
    ELSE IF cs[k].status # "active" THEN "ValueError"
    ELSE ""

executor_execute(cs, contract_id, t, gas) ==
    \* SmartContractExecutor.execute on an executor holding the contracts cs
    LET k == get_contract(cs, contract_id) IN
    IF executor_refuses(cs, contract_id) # ""
    THEN [raised |-> executor_refuses(cs, contract_id), cs |-> cs]
    ELSE [raised |-> "",
          cs |-> [cs EXCEPT ![k] = contract_execute(@, t, SimulatedDelay, gas)]]

deployer_deploy(cs, buyer_id, seller_id, energy_type, quantity, price, match, t) ==
    \* ContractDeployer.deploy: create, deploy, add to the deployer's own executor
    Append(cs, [contract_deploy(SmartContract(Len(cs) + 1, buyer_id, seller_id,
                                               energy_type, quantity, price,
                                               "pending", t), t)
                EXCEPT !.match = match])

Times == 1 .. (MaxClock + MaxOrders)

isoformat(t) == IF t # None THEN ToString(t) ELSE ""
    \* datetime.isoformat(), and None (written "") for a date that is not set

fromisoformat(s) == CHOOSE t \in Times : ToString(t) = s

to_dict(c) ==
    [id |-> c.id, buyer_id |-> c.buyer_id, seller_id |-> c.seller_id,
     energy_type |-> c.energy_type, quantity |-> c.quantity, price |-> c.price,
     total_value |-> c.total_value, status |-> c.status,
     created_at |-> isoformat(c.created_at),
     deployed_at |-> isoformat(c.deployed_at),
     executed_at |-> isoformat(c.executed_at),
     transaction_hash |-> c.transaction_hash,
     verification_status |-> c.verification_status,
     execution_time |-> c.execution_time, gas_used |-> c.gas_used]

from_dict_keeping_its_own_hash(data, t) ==
    LET contract == SmartContract(data.id, data.buyer_id, data.seller_id,
                                  data.energy_type, data.quantity, data.price,
                                  data.status, t)
    IN  [contract EXCEPT
            !.created_at = fromisoformat(data.created_at),
            !.deployed_at = IF data.deployed_at # "" THEN fromisoformat(data.deployed_at) ELSE @,
            !.executed_at = IF data.executed_at # "" THEN fromisoformat(data.executed_at) ELSE @,
            !.verification_status = data.verification_status,
            !.execution_time = data.execution_time,
            !.gas_used = data.gas_used]

from_dict(data, t) ==
    \* the constructor runs first, at time t (it is given no created_at), and
    \* computes a hash of its own; the fields present in data then overwrite
    LET contract == SmartContract(data.id, data.buyer_id, data.seller_id,
                                  data.energy_type, data.quantity, data.price,
                                  data.status, t)
    IN  [contract EXCEPT
            !.created_at = fromisoformat(data.created_at),
            !.deployed_at = IF data.deployed_at # "" THEN fromisoformat(data.deployed_at) ELSE @,
            !.executed_at = IF data.executed_at # "" THEN fromisoformat(data.executed_at) ELSE @,
            !.transaction_hash = data.transaction_hash,
            !.verification_status = data.verification_status,
            !.execution_time = data.execution_time,
            !.gas_used = data.gas_used]

----------------------------------------------------------------------------
(* services/matching_engine/order_matcher.py *)

opposite_type(order_type) == IF order_type = "buy" THEN "sell" ELSE "buy"

pending_orders(txs, new_order) ==
    \* match_order lines 44-49, over the registry txs of the service it consults
    LET Opp(t) == t.order_type = opposite_type(new_order.order_type)
    IN  SelectSeq(get_pending_orders(txs, new_order.energy_type), Opp)

_find_best_match(order, candidates) ==
    IF candidates = <<>> THEN PyNone
    ELSE LET Le(c) == c.price <= order.price
             Ge(c) == c.price >= order.price
             compatible ==
                 IF order.order_type = "buy"
                 THEN SortByPriceTime(SelectSeq(candidates, Le), 1)
                 ELSE SortByPriceTime(SelectSeq(candidates, Ge), -1)
         IN  IF compatible # <<>> THEN PyList(compatible) ELSE PyNone

buyer_order(order1, order2) == IF order1.order_type = "buy" THEN order1 ELSE order2

seller_order(order1, order2) == IF order1.order_type = "buy" THEN order2 ELSE order1

execution_price_of_buyer(order1, order2) == buyer_order(order1, order2).price

execution_price(order1, order2) ==
    (buyer_order(order1, order2).price + seller_order(order1, order2).price) \div 2

mark_first_only(txs, i, j) == [txs EXCEPT ![i] = mark_matched(@, txs[j].id)]

mark_both(txs, i, j) ==
    \* lines 111-112: order1.mark_matched(order2.id); order2.mark_matched(order1.id)
    LET a == [txs EXCEPT ![i] = mark_matched(@, txs[j].id)]
    IN  [a EXCEPT ![j] = mark_matched(@, a[i].id)]

complete_both(txs, id1, id2, contract_id) ==
    \* lines 135-136, on the two order objects (found here by id)
    [k \in 1 .. Len(txs) |->
        IF txs[k].id \in {id1, id2} THEN mark_completed(txs[k], contract_id) ELSE txs[k]]

match_order(txs, new_order) ==
    \* the outcome of match_order when the service it consults holds txs:
    \* matched is the value returned, raised the exception that leaves it.
    \* _execute_match receives best_match as order2; reading .price of a list
    \* (line 108) raises AttributeError before any order is touched.
    LET cands == pending_orders(txs, new_order)
        best == _find_best_match(new_order, cands)
    IN  IF cands = <<>> THEN [matched |-> FALSE, raised |-> ""]
        ELSE IF ~Truthy(best) THEN [matched |-> FALSE, raised |-> ""]
        ELSE IF best.type = "list" THEN [matched |-> FALSE, raised |-> "AttributeError"]
        ELSE [matched |-> TRUE, raised |-> ""]

----------------------------------------------------------------------------
(* State *)

Outcome(op, id, ret, code, raised) ==
    \* value: the object a direct call of _find_best_match returned
    [op |-> op, id |-> id, ret |-> ret, code |-> code, raised |-> raised,
     value |-> PyNone]

EmptyDict == [k \in {} |-> FALSE]

IdleSnapshot ==
    [pc |-> "idle", energy_type |-> "", buy_orders |-> <<>>, sell_orders |-> <<>>,
     total_buy_volume |-> 0, total_sell_volume |-> 0]

IdleFrame == [pc |-> "idle", o1 |-> None, o2 |-> None, price |-> 0, cid |-> None]

Threads == 1 .. MaxThreads

Clients == {"10.0.0.1", "10.0.0.2"}

IdleRequest == [pc |-> "idle", client_id |-> ""]

Init ==
    /\ transactions = <<>>
    /\ now = 0
    /\ books = [e \in ValidEnergyTypes |-> [s \in ValidOrderTypes |-> <<>>]]
    /\ contracts = <<>>
    /\ matched_orders = <<>>
    /\ em = IdleFrame
    /\ last = Outcome("init", None, FALSE, 0, "")
    /\ verified_contracts = EmptyDict
    /\ verification_cache = EmptyDict
    /\ returned = EmptyDict
    /\ snap = IdleSnapshot
    /\ rate_limit_storage = [c \in Clients |-> <<>>]
    /\ rl = [th \in Threads |-> IdleRequest]

----------------------------------------------------------------------------
(* api/routes/trades.py *)

RejectTrade(data) ==
    \* create_trade lines 43-54: the 400 answers
    /\ \/ data.energy_type \notin ValidEnergyTypes
       \/ data.order_type \notin ValidOrderTypes
       \/ data.quantity <= 0
       \/ data.price <= 0
    /\ last' = Outcome("create", None, FALSE, 400, "")
    /\ UNCHANGED <<transactions, now, books, contracts, matched_orders, em, aside>>

AdmitTrade(data) ==
    \* create_trade lines 56-79: create_transaction, then match_order, which
    \* builds a TransactionService of its own (order_matcher.py line 41).
    \* Each admission reads a later value of the clock; the uuid4 of the new
    \* order is a number no order has had before.
    /\ data.energy_type \in ValidEnergyTypes
    /\ data.order_type \in ValidOrderTypes
    /\ data.quantity > 0
    /\ data.price > 0
    /\ Len(transactions) < MaxOrders
    /\ now < MaxClock
    /\ LET new == Transaction(now + 1, data.energy_type, data.quantity,
                              data.price, data.order_type, data.user_id, now + 1)
           out == match_order(FreshTransactionService, new)
       IN  /\ now' = now + 1
           /\ transactions' = create_transaction(transactions, new)
           /\ last' = IF out.raised # ""
                      THEN Outcome("create", new.id, FALSE, 500, out.raised)
                      ELSE Outcome("create", new.id, out.matched, 201, "")
    /\ UNCHANGED <<books, contracts, matched_orders, em, aside>>

CreateTrade ==
    \E data \in TradeInputs : RejectTrade(data) \/ AdmitTrade(data)

CancelTrade ==
    \* cancel_trade: transaction_service.cancel_transaction(transaction_id)
    \E id \in IdInputs :
        LET r == cancel_transaction(transactions, id) IN
        /\ transactions' = r.txs
        /\ last' = Outcome("cancel", id, r.ret, IF r.ret THEN 200 ELSE 400, "")
        /\ UNCHANGED <<now, books, contracts, matched_orders, em, aside>>

Next == CreateTrade \/ CancelTrade

Spec == Init /\ [][Next]_vars

(* The same routes, the requests of a client that sends no user id included *)

AnonymousTrades == {[Template EXCEPT !.user_id = ""]}

SubmitInputs == TradeInputs \cup AnonymousTrades

CreateTradeOfAnyUser ==
    \E data \in SubmitInputs : RejectTrade(data) \/ AdmitTrade(data)

NextSubmit == CreateTradeOfAnyUser \/ CancelTrade

SpecSubmit == Init /\ [][NextSubmit]_vars

----------------------------------------------------------------------------
(* The matcher's own methods, called on the orders of the shared registry. *)
(* create_trade never reaches them with a candidate (its match_order reads *)
(* an empty registry), so they are exercised here directly.                *)

Counterparties(i) ==
    \* the positions of the orders in the value _find_best_match returns for
    \* transactions[i], with the candidates match_order builds (lines 44-56)
    LET best == Range(_find_best_match(transactions[i],
                                       pending_orders(transactions, transactions[i])).items)
    IN  {j \in 1 .. Len(transactions) : transactions[j] \in best}

Selectable(i, j) ==
    \* transactions[i] is a pending order and transactions[j] is one of the
    \* orders in the value _find_best_match returns for it
    /\ i \in 1 .. Len(transactions)
    /\ transactions[i].status = "pending"
    /\ j \in Counterparties(i)

FindBestMatch ==
    \* _find_best_match(order, candidates), candidates as match_order builds them
    \E i \in 1 .. Len(transactions) :
        /\ transactions[i].status = "pending"
        /\ last' = [Outcome("find_best_match", transactions[i].id, FALSE, 0, "")
                    EXCEPT !.value = _find_best_match(transactions[i],
                                        pending_orders(transactions, transactions[i]))]
        /\ UNCHANGED <<transactions, now, books, contracts, matched_orders, em, aside>>

Deployed(txs, cs, i, j, t) ==
    \* _execute_match lines 115-122 on order1 = txs[i], order2 = txs[j].  The
    \* call belongs to the request that submitted order1: the time t the
    \* contract reads is the one that request read for order1.created_at.
    deployer_deploy(cs, buyer_order(txs[i], txs[j]).user_id,
                    seller_order(txs[i], txs[j]).user_id,
                    txs[i].energy_type, txs[i].quantity,
                    execution_price(txs[i], txs[j]), <<txs[i].id, txs[j].id>>, t)

MatchRecord(order1, order2, contract_id, price) ==
    [order1_id |-> order1.id, order2_id |-> order2.id, contract_id |-> contract_id,
     execution_price |-> price, quantity |-> order1.quantity]

ExecuteMatch ==
    \* _execute_match(order1, order2), the whole call.  The contract is added to
    \* the executor of the ContractDeployer built at line 115; line 129 builds
    \* another SmartContractExecutor and asks it to execute the contract.
    \E i \in 1 .. Len(transactions) : \E j \in Counterparties(i) :
        /\ Selectable(i, j)
        /\ LET marked == mark_both(transactions, i, j)
               cs == Deployed(transactions, contracts, i, j, transactions[i].created_at)
               cid == cs[Len(cs)].id
               raised == executor_refuses(FreshSmartContractExecutor, cid)
           IN  /\ contracts' = cs
               /\ IF raised # ""
                  THEN /\ transactions' = marked
                       /\ matched_orders' = matched_orders
                       /\ last' = Outcome("execute_match", marked[i].id, FALSE, 500,
                                          raised)
                  ELSE /\ transactions' = complete_both(marked, marked[i].id,
                                                        marked[j].id, cid)
                       /\ matched_orders' =
                             Append(matched_orders,
                                    MatchRecord(marked[i], marked[j], cid,
                                                execution_price(marked[i], marked[j])))
                       /\ last' = Outcome("execute_match", marked[i].id, TRUE, 201, "")
        /\ UNCHANGED <<now, books, em, aside>>

NextFind == Next \/ FindBestMatch

SpecFind == Init /\ [][NextFind]_vars

NextEngine == Next \/ ExecuteMatch

SpecEngine == Init /\ [][NextEngine]_vars

----------------------------------------------------------------------------
(* Transaction.mark_completed called directly on an order of the registry, *)
(* in whatever state it is, as tests/unit/test_transactions.py calls it.    *)

MarkCompleted ==
    \E i \in 1 .. Len(transactions), contract_id \in {1} :
        /\ transactions' = [transactions EXCEPT ![i] = mark_completed(@, contract_id)]
        /\ last' = Outcome("mark_completed", transactions[i].id, FALSE, 0, "")
        /\ UNCHANGED <<now, books, contracts, matched_orders, em, aside>>

NextModel == Next \/ MarkCompleted

SpecModel == Init /\ [][NextModel]_vars

(* cleanup_old_transactions and get_statistics, called on the registry as *)
(* the trade routes, the matcher and the contract executor have left it.   *)
(* timedelta(days=d) is d steps of the clock.                              *)

RetentionDays == {0, 1, 2}

cleanup_old_transactions(txs, t, days) ==
    \* lines 193-204, utcnow() reading t
    LET cutoff_date == t - days
        Keep(x) == x.created_at > cutoff_date \/ x.status \in {"pending", "matched"}
        kept == SelectSeq(txs, Keep)
    IN  [txs |-> kept, ret |-> Len(txs) - Len(kept)]

CleanupArgs(days, t, removed_count) ==
    [type |-> "cleanup", items |-> <<days, t, removed_count>>]

Cleanup ==
    \E days \in RetentionDays :
        LET r == cleanup_old_transactions(transactions, now + 1, days) IN
        /\ now < MaxOrders
        /\ now' = now + 1
        /\ transactions' = r.txs
        /\ last' = [Outcome("cleanup", None, TRUE, 0, "")
                    EXCEPT !.value = CleanupArgs(days, now + 1, r.ret)]
        /\ UNCHANGED <<books, contracts, matched_orders, em, aside>>

CountStatus(txs, status) ==
    Cardinality({k \in 1 .. Len(txs) : txs[k].status = status})

RECURSIVE CompletedVolume(_)
CompletedVolume(txs) ==
    IF txs = <<>> THEN 0
    ELSE (IF Head(txs).status = "completed" THEN Head(txs).quantity ELSE 0)
             + CompletedVolume(Tail(txs))

Round2(num, den) ==
    \* round(num / den, 2) in hundredths: the nearest integer to 100 * num / den
    (2 * 100 * num + den) \div (2 * den)

get_statistics(txs) ==
    \* lines 133-159; the rate is in hundredths of a percent (10000 = 100.0).
    \* average_execution_time_seconds reads Transaction.execution_time, which
    \* the orders of this model do not carry, and is left out.
    LET total == Len(txs)
        completed == CountStatus(txs, "completed")
        success_rate == IF total > 0 THEN Round2(completed * 100, total) ELSE 0
    IN  [type |-> "dict",
         total_transactions |-> total,
         pending |-> CountStatus(txs, "pending"),
         matched |-> CountStatus(txs, "matched"),
         completed |-> completed,
         cancelled |-> CountStatus(txs, "cancelled"),
         total_volume_kwh |-> CompletedVolume(txs),
         success_rate_percentage |-> success_rate]

GetStatistics ==
    \* trades.py lines 170-187: GET /api/trades/stats
    /\ last' = [Outcome("get_statistics", None, TRUE, 200, "")
                EXCEPT !.value = get_statistics(transactions)]
    /\ UNCHANGED <<transactions, now, books, contracts, matched_orders, em, aside>>

CreateTradeBeforeCleanup ==
    \* submissions and cleanups together read the clock MaxOrders times
    now < MaxOrders /\ CreateTrade

NextRetention ==
    \/ CreateTradeBeforeCleanup \/ CancelTrade \/ ExecuteMatch \/ MarkCompleted
    \/ Cleanup \/ GetStatistics

SpecRetention == Init /\ [][NextRetention]_vars

----------------------------------------------------------------------------
(* _execute_match in three steps, with cancellations and submissions of     *)
(* other requests running between them (the code takes no lock).            *)

EM_Mark ==
    \* lines 99-112: buyer and seller, execution price, both orders marked
    \E i \in 1 .. Len(transactions) : \E j \in Counterparties(i) :
        /\ em.pc = "idle"
        /\ Selectable(i, j)
        /\ transactions' = mark_both(transactions, i, j)
        /\ em' = [pc |-> "marked", o1 |-> transactions[i].id, o2 |-> transactions[j].id,
                  price |-> execution_price(transactions[i], transactions[j]),
                  cid |-> None]
        /\ last' = Outcome("mark", transactions[i].id, FALSE, 0, "")
        /\ UNCHANGED <<now, books, contracts, matched_orders, aside>>

EM_Deploy ==
    \* lines 115-122
    /\ em.pc = "marked"
    /\ LET i == IndexOfId(transactions, em.o1)
           j == IndexOfId(transactions, em.o2)
           cs == deployer_deploy(contracts, buyer_order(transactions[i], transactions[j]).user_id,
                                 seller_order(transactions[i], transactions[j]).user_id,
                                 transactions[i].energy_type, transactions[i].quantity,
                                 em.price, <<em.o1, em.o2>>, transactions[i].created_at)
       IN  /\ contracts' = cs
           /\ em' = [em EXCEPT !.pc = "deployed", !.cid = cs[Len(cs)].id]
           /\ last' = Outcome("deploy", em.o1, FALSE, 0, "")
    /\ UNCHANGED <<transactions, now, books, matched_orders, aside>>

EM_Execute ==
    \* lines 125-156
    /\ em.pc = "deployed"
    /\ LET raised == executor_refuses(FreshSmartContractExecutor, em.cid)
           i == IndexOfId(transactions, em.o1)
           j == IndexOfId(transactions, em.o2)
       IN  IF raised # ""
           THEN /\ UNCHANGED <<limiter, transactions, matched_orders>>
                /\ last' = Outcome("execute_match", em.o1, FALSE, 500, raised)
           ELSE /\ transactions' = complete_both(transactions, em.o1, em.o2, em.cid)
                /\ matched_orders' =
                      Append(matched_orders,
                             MatchRecord(transactions[i], transactions[j], em.cid, em.price))
                /\ last' = Outcome("execute_match", em.o1, TRUE, 201, "")
    /\ em' = IdleFrame
    /\ UNCHANGED <<now, books, contracts, aside>>

NextConc == Next \/ EM_Mark \/ EM_Deploy \/ EM_Execute

SpecConc == Init /\ [][NextConc]_vars

(* A request thread that has entered _execute_match runs on to the end of  *)
(* the call (its return or the exception it raises); when clients send     *)
(* requests is not up to the program.                                      *)

SpecConcFair == SpecConc /\ WF_vars(EM_Deploy) /\ WF_vars(EM_Execute)

----------------------------------------------------------------------------
(* match_order and _execute_match with the selection of the counterparty   *)
(* (match_order lines 44-58) and the marking (_execute_match lines 99-112)  *)
(* as separate steps, while other requests (a cancellation, a submission,   *)
(* a whole _execute_match of another request thread) run between them.      *)

EM_Select ==
    \* match_order lines 44-60: the candidates are read and the counterparty chosen
    \E i \in 1 .. Len(transactions) : \E j \in Counterparties(i) :
        /\ em.pc = "idle"
        /\ Selectable(i, j)
        /\ em' = [pc |-> "selected", o1 |-> transactions[i].id,
                  o2 |-> transactions[j].id, price |-> 0, cid |-> None]
        /\ last' = Outcome("select", transactions[i].id, FALSE, 0, "")
        /\ UNCHANGED <<transactions, now, books, contracts, matched_orders, aside>>

EM_MarkSelected ==
    \* _execute_match lines 99-112 on the two orders selected earlier,
    \* whatever their status has become
    /\ em.pc = "selected"
    /\ LET i == IndexOfId(transactions, em.o1)
           j == IndexOfId(transactions, em.o2)
       IN  /\ transactions' = mark_both(transactions, i, j)
           /\ em' = [em EXCEPT !.pc = "marked",
                               !.price = execution_price(transactions[i], transactions[j])]
           /\ last' = Outcome("mark", em.o1, FALSE, 0, "")
    /\ UNCHANGED <<now, books, contracts, matched_orders, aside>>

ExecuteMatchOfAnother ==
    \* the whole _execute_match of a submission other than the one in progress
    ExecuteMatch /\ last'.id # em.o1

NextRace ==
    Next \/ ExecuteMatchOfAnother \/ EM_Select \/ EM_MarkSelected \/ EM_Deploy \/ EM_Execute

SpecRace == Init /\ [][NextRace]_vars

----------------------------------------------------------------------------
(* SmartContract objects held by a SmartContractExecutor, with the methods  *)
(* of the class called on them directly, as tests/unit/test_smart_contracts *)
(* calls them, and SmartContractExecutor.execute called by id.  Every       *)
(* operation that reads the clock reads a later value than the one before.  *)

ContractInputs ==
    {[buyer_id |-> "u1", seller_id |-> "u2", energy_type |-> "solar",
      quantity |-> 100, price |-> 20],
     [buyer_id |-> "u2", seller_id |-> "u1", energy_type |-> "wind",
      quantity |-> 200, price |-> 22]}

ContractIdInputs == 1 .. (MaxContracts + 1)

PyStr(s) == [type |-> "str", items |-> <<s>>]

NewContract ==
    \* SmartContract(...) then executor.add_contract(contract)
    \E d \in ContractInputs :
        /\ Len(contracts) < MaxContracts
        /\ now < MaxClock
        /\ now' = now + 1
        /\ contracts' = Append(contracts,
                               SmartContract(Len(contracts) + 1, d.buyer_id, d.seller_id,
                                             d.energy_type, d.quantity, d.price,
                                             "pending", now'))
        /\ last' = Outcome("new_contract", Len(contracts) + 1, TRUE, 0, "")
        /\ UNCHANGED <<transactions, books, matched_orders, em, aside>>

DeployContract ==
    \* contract.deploy() on a contract in whatever state it is
    \E k \in 1 .. Len(contracts) :
        /\ now < MaxClock
        /\ now' = now + 1
        /\ contracts' = [contracts EXCEPT ![k] = contract_deploy(@, now')]
        /\ last' = [Outcome("deploy_contract", contracts[k].id, TRUE, 0, "")
                    EXCEPT !.value = PyStr(contracts'[k].transaction_hash)]
        /\ UNCHANGED <<transactions, books, matched_orders, em, aside>>

ExecuteContract ==
    \* executor.execute(contract_id)
    \E id \in ContractIdInputs, gas \in GasInputs :
        LET res == executor_execute(contracts, id, now + 1, gas) IN
        /\ IF res.raised # ""
           THEN /\ UNCHANGED <<now, contracts>>
                /\ last' = Outcome("execute_contract", id, FALSE, 500, res.raised)
           ELSE /\ now < MaxClock
                /\ now' = now + 1
                /\ contracts' = res.cs
                /\ last' = Outcome("execute_contract", id, TRUE, 200, "")
        /\ UNCHANGED <<transactions, books, matched_orders, em, aside>>

FailContract ==
    \* contract.fail(reason)
    \E k \in 1 .. Len(contracts) :
        /\ contracts' = [contracts EXCEPT ![k] = contract_fail(@)]
        /\ last' = Outcome("fail_contract", contracts[k].id, FALSE, 0, "")
        /\ UNCHANGED <<transactions, now, books, matched_orders, em, aside>>

VerifyContract ==
    \* contract.verify()
    \E k \in 1 .. Len(contracts) :
        /\ contracts' = [contracts EXCEPT ![k] = contract_verify(@)]
        /\ last' = Outcome("verify_contract", contracts[k].id,
                           contracts[k].status = "completed", 0, "")
        /\ UNCHANGED <<transactions, now, books, matched_orders, em, aside>>

ReconstructContract ==
    \* SmartContract.from_dict(contract.to_dict()) takes the place of the contract
    \E k \in 1 .. Len(contracts) :
        /\ now < MaxClock
        /\ now' = now + 1
        /\ contracts' = [contracts EXCEPT ![k] = from_dict(to_dict(@), now')]
        /\ last' = Outcome("from_dict", contracts[k].id, TRUE, 0, "")
        /\ UNCHANGED <<transactions, books, matched_orders, em, aside>>

NextContract ==
    \/ NewContract \/ DeployContract \/ ExecuteContract
    \/ FailContract \/ VerifyContract \/ ReconstructContract

SpecContract == Init /\ [][NextContract]_vars

----------------------------------------------------------------------------
(* services/blockchain/verified.py: VerificationService, called with the    *)
(* strings a request to /api/contracts/verify carries (contracts.py lines   *)
(* 104-114 pass them on unchecked).                                        *)

VerifyIdInputs == {"x", "x:2d71"}

HashInputs == {"2d71:z", "z", "2d71", "9087"}

verifyCacheCapacity == 3
    \* the capacity of a cache: utils/constants.py line 83 sets CACHE_MAX_SIZE =
    \* 1000, scaled here to 3.  VerificationService never reads it.

sha256_hex8(s) ==
    \* hashlib.sha256(s.encode()).hexdigest()[:8] of the ids above
    CASE s = "x" -> "2d711642"
      [] s = "x:2d71" -> "908793de"

startswith(s, prefix) ==
    Len(s) >= Len(prefix) /\ SubSeq(s, 1, Len(prefix)) = prefix

_verify_hash_integrity(contract_id, transaction_hash) ==
    LET expected_hash_prefix == sha256_hex8(contract_id)
    IN  startswith(transaction_hash, SubSeq(expected_hash_prefix, 1, 4))

cache_key(contract_id, transaction_hash) == contract_id \o ":" \o transaction_hash

DictPut(d, k, v) == [x \in DOMAIN d \cup {k} |-> IF x = k THEN v ELSE d[x]]

Verification(contract_id, transaction_hash, is_valid) ==
    [contract_id |-> contract_id, transaction_hash |-> transaction_hash,
     verified |-> is_valid, confirmations |-> IF is_valid THEN 12 ELSE 0]

get_verification_status(vc, contract_id) ==
    \* lines 85-102 (verified_at and verification_time, which Verification
    \* does not carry, left out)
    IF contract_id \notin DOMAIN vc
    THEN [contract_id |-> contract_id, verified |-> FALSE, status |-> "unverified"]
    ELSE LET verification == vc[contract_id]
         IN  [contract_id |-> verification.contract_id,
              transaction_hash |-> verification.transaction_hash,
              verified |-> verification.verified,
              confirmations |-> verification.confirmations,
              status |-> IF verification.verified THEN "verified" ELSE "failed"]

VerifyArgs(contract_id, transaction_hash) ==
    [type |-> "verify", items |-> <<contract_id, transaction_hash>>]

Verify ==
    \* VerificationService.verify(contract_id, transaction_hash)
    \E contract_id \in VerifyIdInputs, transaction_hash \in HashInputs :
        LET key == cache_key(contract_id, transaction_hash)
            hit == key \in DOMAIN verification_cache
            is_valid == _verify_hash_integrity(contract_id, transaction_hash)
            ret == IF hit THEN verification_cache[key] ELSE is_valid
            args == <<contract_id, transaction_hash>>
        IN  /\ IF hit
               THEN UNCHANGED <<verified_contracts, verification_cache>>
               ELSE /\ verified_contracts' =
                          DictPut(verified_contracts, contract_id,
                                  Verification(contract_id, transaction_hash, is_valid))
                    /\ verification_cache' = DictPut(verification_cache, key, is_valid)
            /\ returned' = DictPut(returned, args,
                                   (IF args \in DOMAIN returned THEN returned[args] ELSE {})
                                       \cup {ret})
            /\ last' = [Outcome("verify", None, ret, 200, "")
                        EXCEPT !.value = VerifyArgs(contract_id, transaction_hash)]
            /\ UNCHANGED <<limiter, transactions, now, books, contracts, matched_orders, em, snap>>

ClearCache ==
    \* VerificationService.clear_cache()
    /\ verification_cache' = EmptyDict
    /\ last' = [Outcome("clear_cache", None, TRUE, 0, "")
                EXCEPT !.value = [type |-> "int",
                                  items |-> <<Cardinality(DOMAIN verification_cache)>>]]
    /\ UNCHANGED <<limiter, transactions, now, books, contracts, matched_orders, em,
                   verified_contracts, returned, snap>>

NextVerify == Verify \/ ClearCache

SpecVerify == Init /\ [][NextVerify]_vars

----------------------------------------------------------------------------
(* services/matching_engine/order.py: an OrderBook used directly, as        *)
(* tests/unit/test_matching_engine.py uses it.  get_book builds its result  *)
(* in four reads of the live lists (lines 106-109); add_order and           *)
(* remove_order of other threads run between them (the class has no lock).  *)

BookOrderInputs ==
    {o \in [id : 1 .. 2, energy_type : {"solar", "coal"}, order_type : ValidOrderTypes,
            price : {20, 22}, quantity : {100, 200}, user_id : {"u1"}] :
        /\ o.quantity = 200 => (o.order_type = "buy" /\ o.price = 22 /\ o.id = 2)
        /\ o.energy_type = "coal" =>
              (o.order_type = "buy" /\ o.price = 22 /\ o.quantity = 100 /\ o.id = 1)}

BookEntry(order, t) ==
    [id |-> order.id, price |-> order.price, quantity |-> order.quantity,
     user_id |-> order.user_id, timestamp |-> t]

EntryKeyLessEq(a, b, sign) ==
    \* the sort keys (-price, timestamp) of a buy side and (price, timestamp) of a sell side
    \/ sign * a.price < sign * b.price
    \/ (a.price = b.price /\ a.timestamp <= b.timestamp)

RECURSIVE InsertEntry(_, _, _)
InsertEntry(s, x, sign) ==
    IF s = <<>> THEN <<x>>
    ELSE IF EntryKeyLessEq(Head(s), x, sign)
         THEN <<Head(s)>> \o InsertEntry(Tail(s), x, sign)
         ELSE <<x>> \o s

RECURSIVE SortEntries(_, _)
SortEntries(s, sign) ==
    IF s = <<>> THEN <<>>
    ELSE InsertEntry(SortEntries(SubSeq(s, 1, Len(s) - 1), sign), s[Len(s)], sign)

_sort_book(bk, energy_type, order_type) ==
    [bk EXCEPT ![energy_type][order_type] =
        SortEntries(@, IF order_type = "buy" THEN -1 ELSE 1)]

add_order(bk, order, t) ==
    IF order.energy_type \notin DOMAIN bk THEN [books |-> bk, ret |-> FALSE]
    ELSE [books |-> _sort_book([bk EXCEPT ![order.energy_type][order.order_type] =
                                    Append(@, BookEntry(order, t))],
                               order.energy_type, order.order_type),
          ret |-> TRUE]

remove_order(bk, energy_type, order_type, order_id) ==
    IF energy_type \notin DOMAIN bk THEN [books |-> bk, ret |-> FALSE]
    ELSE LET Other(o) == o.id # order_id
             kept == SelectSeq(bk[energy_type][order_type], Other)
         IN  [books |-> [bk EXCEPT ![energy_type][order_type] = kept],
              ret |-> Len(bk[energy_type][order_type]) > Len(kept)]

RECURSIVE SumQuantity(_)
SumQuantity(s) == IF s = <<>> THEN 0 ELSE Head(s).quantity + SumQuantity(Tail(s))

BookSize(bk) ==
    Len(bk["solar"]["buy"]) + Len(bk["solar"]["sell"])

Dropped(s) == IF s.pc = "done" THEN IdleSnapshot ELSE s
    \* the result of a finished get_book is gone once another operation runs

AddOrder ==
    \E order \in BookOrderInputs :
        LET r == add_order(books, order, now + 1) IN
        /\ BookSize(books) < MaxBook
        /\ now < MaxBook + 1
        /\ now' = IF r.ret THEN now + 1 ELSE now
        /\ books' = r.books
        /\ snap' = Dropped(snap)
        /\ last' = Outcome("add_order", order.id, r.ret, 0, "")
        /\ UNCHANGED <<limiter, transactions, contracts, matched_orders, em,
                       verified_contracts, verification_cache, returned>>

RemoveOrder ==
    \E order_type \in ValidOrderTypes, order_id \in 1 .. 2 :
        LET r == remove_order(books, "solar", order_type, order_id) IN
        /\ books' = r.books
        /\ snap' = Dropped(snap)
        /\ last' = Outcome("remove_order", order_id, r.ret, 0, "")
        /\ UNCHANGED <<limiter, transactions, now, contracts, matched_orders, em,
                       verified_contracts, verification_cache, returned>>

GB_CopyBuy ==
    \* get_book lines 101-106: a new call; the buy list is copied
    /\ snap.pc \in {"idle", "done"}
    /\ snap' = [IdleSnapshot EXCEPT !.pc = "buy_copied", !.energy_type = "solar",
                                    !.buy_orders = books["solar"]["buy"]]
    /\ last' = Outcome("get_book", None, FALSE, 0, "")
    /\ UNCHANGED <<limiter, transactions, now, books, contracts, matched_orders, em,
                   verified_contracts, verification_cache, returned>>

GB_CopySell ==
    \* line 107
    /\ snap.pc = "buy_copied"
    /\ snap' = [snap EXCEPT !.pc = "sell_copied", !.sell_orders = books["solar"]["sell"]]
    /\ last' = Outcome("get_book", None, FALSE, 0, "")
    /\ UNCHANGED <<limiter, transactions, now, books, contracts, matched_orders, em,
                   verified_contracts, verification_cache, returned>>

GB_SumBuy ==
    \* line 108
    /\ snap.pc = "sell_copied"
    /\ snap' = [snap EXCEPT !.pc = "buy_summed",
                            !.total_buy_volume = SumQuantity(books["solar"]["buy"])]
    /\ last' = Outcome("get_book", None, FALSE, 0, "")
    /\ UNCHANGED <<limiter, transactions, now, books, contracts, matched_orders, em,
                   verified_contracts, verification_cache, returned>>

GB_SumSell ==
    \* lines 109-111: the last read; the result is returned
    /\ snap.pc = "buy_summed"
    /\ snap' = [snap EXCEPT !.pc = "done",
                            !.total_sell_volume = SumQuantity(books["solar"]["sell"])]
    /\ last' = Outcome("get_book", None, TRUE, 0, "")
    /\ UNCHANGED <<limiter, transactions, now, books, contracts, matched_orders, em,
                   verified_contracts, verification_cache, returned>>

BidAsk(best_bid, best_ask, spread, mid_price) ==
    [type |-> "dict", best_bid |-> best_bid, best_ask |-> best_ask,
     spread |-> spread, mid_price |-> mid_price]

get_best_bid_ask(bk, energy_type) ==
    \* lines 128-145.  Lines 134 and 135 index the list itself with 'price':
    \* a non-empty list raises TypeError there, an empty one gives None.
    IF energy_type \notin DOMAIN bk THEN [raised |-> "", value |-> PyNone]
    ELSE LET buy_orders == bk[energy_type]["buy"]
             sell_orders == bk[energy_type]["sell"]
         IN  IF buy_orders # <<>> THEN [raised |-> "TypeError", value |-> PyNone]
             ELSE IF sell_orders # <<>> THEN [raised |-> "TypeError", value |-> PyNone]
             ELSE [raised |-> "", value |-> BidAsk(None, None, None, None)]

GetBestBidAsk ==
    \E energy_type \in {"solar", "coal"} :
        LET r == get_best_bid_ask(books, energy_type) IN
        /\ last' = [Outcome("get_best_bid_ask", energy_type, r.raised = "", 0, r.raised)
                    EXCEPT !.value = r.value]
        /\ UNCHANGED <<transactions, now, books, contracts, matched_orders, em, aside>>

NextBook ==
    \/ AddOrder \/ RemoveOrder \/ GB_CopyBuy \/ GB_CopySell \/ GB_SumBuy \/ GB_SumSell
    \/ GetBestBidAsk

SpecBook == Init /\ [][NextBook]_vars

----------------------------------------------------------------------------
(* api/middleware/rate_limiter.py: check_rate_limit runs before every      *)
(* request, in the thread that serves it.  is_rate_limited and             *)
(* record_request each hold storage_lock for their own body only, so the   *)
(* requests of other threads run between the two.  time.time() is the      *)
(* clock now, which moves on its own.                                      *)

RATE_LIMIT_WINDOW == 2
    \* line 17 sets 60 (seconds), scaled here to 2 steps of the clock

RATE_LIMIT_MAX_REQUESTS == 2
    \* line 18 sets 100, scaled here to 2

Paths == {"/health", "/api/trades/list"}

is_rate_limited(storage, client_id, current_time) ==
    \* lines 49-60, under storage_lock
    LET window_start == current_time - RATE_LIMIT_WINDOW
        Recent(req_time) == req_time > window_start
        cleaned == [storage EXCEPT ![client_id] = SelectSeq(@, Recent)]
    IN  [storage |-> cleaned,
         ret |-> Len(cleaned[client_id]) >= RATE_LIMIT_MAX_REQUESTS]

record_request(storage, client_id, current_time) ==
    \* lines 67-69, under storage_lock
    [storage EXCEPT ![client_id] = Append(@, current_time)]

RL_Check(th) ==
    \* check_rate_limit lines 26-38: a request arrives at thread th
    \E client_id \in Clients, path \in Paths :
        /\ rl[th].pc = "idle"
        /\ IF path = "/health"
           THEN /\ last' = Outcome("check_rate_limit", None, TRUE, 200, "")
                /\ UNCHANGED limiter
           ELSE LET r == is_rate_limited(rate_limit_storage, client_id, now) IN
                /\ rate_limit_storage' = r.storage
                /\ IF r.ret
                   THEN /\ last' = Outcome("check_rate_limit", None, FALSE, 429, "")
                        /\ UNCHANGED rl
                   ELSE /\ last' = Outcome("is_rate_limited", None, FALSE, 0, "")
                        /\ rl' = [rl EXCEPT ![th] = [pc |-> "checked",
                                                     client_id |-> client_id]]
        /\ UNCHANGED <<transactions, now, books, contracts, matched_orders, em,
                       verified_contracts, verification_cache, returned, snap>>

RL_Record(th) ==
    \* check_rate_limit lines 40-42
    /\ rl[th].pc = "checked"
    /\ rate_limit_storage' = record_request(rate_limit_storage, rl[th].client_id, now)
    /\ rl' = [rl EXCEPT ![th] = IdleRequest]
    /\ last' = Outcome("check_rate_limit", None, TRUE, 200, "")
    /\ UNCHANGED <<transactions, now, books, contracts, matched_orders, em,
                   verified_contracts, verification_cache, returned, snap>>

cleanup_old_entries(storage, current_time) ==
    \* lines 111-121; a deleted key of the defaultdict reads as the empty list
    LET Young(req_time) == req_time > current_time - RATE_LIMIT_WINDOW * 2
    IN  [c \in DOMAIN storage |-> SelectSeq(storage[c], Young)]

RL_Cleanup ==
    /\ rate_limit_storage' = cleanup_old_entries(rate_limit_storage, now)
    /\ last' = Outcome("cleanup_old_entries", None, TRUE, 0, "")
    /\ UNCHANGED <<transactions, now, books, contracts, matched_orders, em,
                   verified_contracts, verification_cache, returned, snap, rl>>

TimePasses ==
    /\ now < MaxClock
    /\ now' = now + 1
    /\ UNCHANGED <<transactions, books, contracts, matched_orders, em, last, aside>>

NextLimiter ==
    \/ \E th \in Threads : RL_Check(th)
    \/ \E th \in Threads : RL_Record(th)
    \/ RL_Cleanup
    \/ TimePasses

SpecLimiter == Init /\ [][NextLimiter]_vars

----------------------------------------------------------------------------
(* Vocabulary of the properties *)

BookCount(bk, e, s, id) ==
    \* number of entries of the (e, s) book that carry this order id
    Cardinality({k \in 1 .. Len(bk[e][s]) : bk[e][s][k].id = id})

BookEntries(bk, id) ==
    \* the (category, side, position) places where the order id is booked
    {p \in ValidEnergyTypes \X ValidOrderTypes \X (1 .. MaxOrders + 1) :
        /\ p[3] <= Len(bk[p[1]][p[2]])
        /\ bk[p[1]][p[2]][p[3]].id = id}

OrderOf(txs, id) == txs[IndexOfId(txs, id)]

Known(txs, id) == IndexOfId(txs, id) # 0

Crosses(a, b) ==
    \* a and b are a buy and a sell of one category whose prices cross (ask <= bid)
    /\ a.energy_type = b.energy_type
    /\ a.order_type # b.order_type
    /\ seller_order(a, b).price <= buyer_order(a, b).price

ContractReachedActive(cs, id) ==
    \* the contract created for the match of order id is active or beyond
    \E k \in 1 .. Len(cs) :
        /\ id \in Range(cs[k].match)
        /\ cs[k].status \in {"active", "completed", "failed"}

CancelStep ==
    \* this step is a cancel(last'.id) request that was answered
    /\ last'.op = "cancel"
    /\ <<last, transactions>>' # <<last, transactions>>

----------------------------------------------------------------------------
\* C1: after any sequence of submit, match and cancel operations an order is
\* pending if and only if it is present in exactly one order-book entry, that
\* of its own category and side; matched, completed and cancelled orders are
\* in no book.
C1_PendingIffInOneBook ==
    \A k \in 1 .. Len(transactions) :
        LET o == transactions[k] IN
        /\ o.status = "pending" <=> Cardinality(BookEntries(books, o.id)) = 1
        /\ o.status = "pending" => BookCount(books, o.energy_type, o.order_type, o.id) = 1
        /\ o.status # "pending" => BookEntries(books, o.id) = {}

\* C2: a valid submission that finds an earlier order still pending on the
\* opposite side of its category, of equal quantity and with crossing prices,
\* returns matched = true, creates exactly one contract, leaves both orders
\* completed and neither of them in a book.
C2_CrossingSubmissionMatches ==
    [][ Len(transactions') = Len(transactions) + 1 =>
          LET new == transactions'[Len(transactions')]
              Resting == {j \in 1 .. Len(transactions) :
                             /\ transactions[j].status = "pending"
                             /\ Crosses(new, transactions[j])
                             /\ transactions[j].quantity = new.quantity}
          IN  Resting # {} =>
                /\ last'.op = "create" /\ last'.ret
                /\ Len(contracts') = Len(contracts) + 1
                /\ new.status = "completed"
                /\ BookEntries(books', new.id) = {}
                /\ \E j \in Resting :
                      /\ transactions'[j].status = "completed"
                      /\ BookEntries(books', transactions'[j].id) = {}
      ]_vars

\* C3: when the incoming order has several price-compatible pending orders on
\* the opposite side of its category, the counterparty selected for it is the
\* single order with the best price (lowest ask for a buy, highest bid for a
\* sell) and, among equal prices, the earliest created_at.
C3_BestMatchIsTheBestOrder ==
    last.op = "find_best_match" =>
        LET order == OrderOf(transactions, last.id)
            compat == {c \in Range(pending_orders(transactions, order)) :
                          Crosses(order, c)}
            Better(a, b) ==
                \/ (order.order_type = "buy" /\ a.price < b.price)
                \/ (order.order_type = "sell" /\ a.price > b.price)
                \/ (a.price = b.price /\ a.created_at < b.created_at)
        IN  Cardinality(compat) >= 2 =>
                \E b \in compat :
                    /\ \A c \in compat \ {b} : Better(b, c)
                    /\ last.value = [type |-> "Transaction", items |-> <<b>>]

\* C4: whole-order policy: a match proceeds only between two orders of equal
\* quantity, so every order marked matched has a counterparty of its own
\* quantity and every contract was created for two orders of equal quantity.
C4_OnlyEqualQuantitiesMatch ==
    /\ \A k \in 1 .. Len(transactions) :
          LET o == transactions[k] IN
          (o.matched_with # None /\ Known(transactions, o.matched_with)) =>
              OrderOf(transactions, o.matched_with).quantity = o.quantity
    /\ \A k \in 1 .. Len(contracts) :
          LET c == contracts[k] IN
          OrderOf(transactions, c.match[1]).quantity
              = OrderOf(transactions, c.match[2]).quantity

\* C5: for every match of a buy order B with a sell order S the execution
\* price is the midpoint (B.price + S.price) / 2 and lies between S.price and
\* B.price; a buy and a sell whose prices do not cross are never matched with
\* each other.
C5_ExecutionPriceIsMidpointWithinLimits ==
    /\ \A k \in 1 .. Len(contracts) :
          LET c == contracts[k]
              o1 == OrderOf(transactions, c.match[1])
              o2 == OrderOf(transactions, c.match[2])
              B == IF o1.order_type = "buy" THEN o1 ELSE o2
              S == IF o1.order_type = "buy" THEN o2 ELSE o1
          IN  /\ B.order_type = "buy" /\ S.order_type = "sell"
              /\ 2 * c.price = B.price + S.price
              /\ S.price <= c.price /\ c.price <= B.price
    /\ \A i \in 1 .. Len(transactions), j \in 1 .. Len(transactions) :
          LET B == transactions[i]
              S == transactions[j]
          IN  (B.order_type = "buy" /\ S.order_type = "sell" /\ S.price > B.price) =>
                  (B.matched_with # S.id /\ S.matched_with # B.id)

\* C5 witness: the contract of a match whose ask is strictly below its bid,
\* both orders marked matched, beside a third order still pending.
C5_Witness ==
    \E k \in 1 .. Len(contracts) :
        LET c == contracts[k]
            o1 == OrderOf(transactions, c.match[1])
            o2 == OrderOf(transactions, c.match[2])
        IN  /\ o1.price # o2.price
            /\ o1.status = "matched" /\ o2.status = "matched"
            /\ \E i \in 1 .. Len(transactions) : transactions[i].status = "pending"

C7_TerminalStatesAreTerminal ==
    [][ \A k \in 1 .. Len(transactions) :
            transactions[k].status \in {"completed", "cancelled"} =>
                transactions'[k].status = transactions[k].status ]_vars

\* C8: cancel(id) on a pending order returns true, sets it cancelled and leaves
\* it in no book (no other order changes); cancel on an unknown id, or on a
\* completed or already cancelled order, returns false and changes no order and
\* no book.
C8_CancelPendingOrRefuse ==
    [][ LET id == last'.id IN
            CancelStep =>
                IF Known(transactions, id) /\ OrderOf(transactions, id).status = "pending"
                THEN /\ last'.ret
                     /\ OrderOf(transactions', id).status = "cancelled"
                     /\ BookEntries(books', id) = {}
                     /\ Len(transactions') = Len(transactions)
                     /\ \A k \in 1 .. Len(transactions) :
                           transactions[k].id # id => transactions'[k] = transactions[k]
                ELSE IF \/ ~Known(transactions, id)
                        \/ OrderOf(transactions, id).status \in {"completed", "cancelled"}
                     THEN /\ ~last'.ret
                          /\ transactions' = transactions
                          /\ books' = books
                     ELSE TRUE ]_vars

\* C8 witness: a cancel just refused on a completed order, in a registry that
\* also holds an order cancelled earlier.
C8_Witness ==
    /\ last.op = "cancel" /\ ~last.ret
    /\ Known(transactions, last.id)
    /\ OrderOf(transactions, last.id).status = "completed"
    /\ \E k \in 1 .. Len(transactions) : transactions[k].status = "cancelled"

\* C9: cancel(id) on a matched order succeeds only if the contract created
\* for its match has not yet reached active; once that contract is active (or
\* later) the cancel is refused and the order stays matched.
C9_MatchedCancelOnlyBeforeActive ==
    [][ LET id == last'.id IN
            ( /\ CancelStep
              /\ Known(transactions, id)
              /\ OrderOf(transactions, id).status = "matched"
              /\ ContractReachedActive(contracts, id) ) =>
                /\ ~last'.ret
                /\ OrderOf(transactions', id).status = "matched" ]_vars

\* C10: when cancel succeeds on a matched order O whose contract is not yet
\* active, O becomes cancelled and its counterparty P = O.matched_with is
\* pending again and back in its book, with its original created_at.
C10_CancelRestoresCounterparty ==
    [][ LET id == last'.id IN
            ( /\ CancelStep
              /\ Known(transactions, id)
              /\ OrderOf(transactions, id).status = "matched"
              /\ ~ContractReachedActive(contracts, id)
              /\ last'.ret ) =>
                LET O == OrderOf(transactions, id)
                    P == OrderOf(transactions, O.matched_with)
                    P2 == OrderOf(transactions', O.matched_with)
                IN  /\ OrderOf(transactions', id).status = "cancelled"
                    /\ P2.status = "pending"
                    /\ P2.created_at = P.created_at
                    /\ BookCount(books', P2.energy_type, P2.order_type, P2.id) = 1
      ]_vars

\* C11: if the execution of the contract of a match of B and S fails (execute
\* reports failure or raises), then afterwards B and S are both pending, each in
\* its original book side with its original created_at, the contract is recorded
\* as failed, and neither order is marked completed for that contract.
C11_FailedExecutionRevertsBoth ==
    [][ ( /\ last'.op = "execute_match"
          /\ last'.raised # ""
          /\ Len(contracts') = Len(contracts) + 1 ) =>
            LET c == contracts'[Len(contracts')] IN
            /\ c.status = "failed"
            /\ \A id \in Range(c.match) :
                  LET o == OrderOf(transactions, id)
                      o2 == OrderOf(transactions', id)
                  IN  /\ o2.status = "pending"
                      /\ o2.created_at = o.created_at
                      /\ BookCount(books', o2.energy_type, o2.order_type, id) = 1
                      /\ o2.contract_id # c.id
      ]_vars

\* C12: when cancel(o) races a submission that selects o as its counterparty,
\* exactly one of the two takes effect: once cancel has returned true for o
\* (o is cancelled), o is never afterwards matched or completed and no contract
\* is created for it.
C12_CancelledIsNeverMatched ==
    [][ \A k \in 1 .. Len(transactions) :
            transactions[k].status = "cancelled" =>
                /\ transactions'[k].status \notin {"matched", "completed"}
                /\ Len(contracts') > Len(contracts) =>
                      transactions[k].id \notin Range(contracts'[Len(contracts')].match)
      ]_vars

\* C13: matching is serialized: no resting order is selected as counterparty by
\* two submissions, so an order's matched_with, once set, is never overwritten
\* and at most one contract is created per order.
C13_OneCounterpartyOneContract ==
    [][ \A k \in 1 .. Len(transactions) :
            /\ transactions[k].matched_with # None =>
                  transactions'[k].matched_with = transactions[k].matched_with
            /\ Cardinality({c \in 1 .. Len(contracts') :
                               transactions[k].id \in Range(contracts'[c].match)}) <= 1
      ]_vars

\* C15: contract state progression is monotone under any sequence of deploy,
\* execute and fail operations: a contract only moves pending -> active ->
\* (completed | failed), never leaves completed or failed, and never returns to
\* pending or active from a later state.
C15_ContractStateIsMonotone ==
    [][ \A k \in 1 .. Len(contracts) :
            \/ contracts'[k].status = contracts[k].status
            \/ contracts[k].status = "pending" /\ contracts'[k].status = "active"
            \/ contracts[k].status = "active"
                 /\ contracts'[k].status \in {"completed", "failed"}
      ]_vars

\* C16: execute(id) requires state active: for an unknown id, or a contract
\* that is pending, completed or failed, it fails with an error and leaves every
\* contract's state, executed_at, execution_time and gas_used unchanged;
\* consequently each contract is executed at most once.
C16_ExecuteRequiresActive ==
    [][ (last'.op = "execute_contract" /\ <<last, contracts>>' # <<last, contracts>>) =>
            LET k == get_contract(contracts, last'.id) IN
            /\ (k = 0 \/ contracts[k].status # "active") =>
                  (last'.raised # "" /\ contracts' = contracts)
            /\ (last'.raised = "") =>
                  (k # 0 /\ contracts[k].executed_at = None)
      ]_vars

\* C17: deploy is idempotent on an already-active contract: a second deploy
\* returns the same transaction hash as the first and leaves the contract as
\* the first deploy left it (active, same hash, same deployed_at).
C17_DeployIsIdempotentOnActive ==
    [][ (last'.op = "deploy_contract" /\ <<last, now>>' # <<last, now>>) =>
            LET k == get_contract(contracts, last'.id) IN
            contracts[k].status = "active" =>
                /\ last'.value = PyStr(contracts[k].transaction_hash)
                /\ contracts'[k].status = "active"
                /\ contracts'[k].transaction_hash = contracts[k].transaction_hash
                /\ contracts'[k].deployed_at = contracts[k].deployed_at
      ]_vars

C19_VerifyAlwaysAnswersTheSame ==
    \A args \in DOMAIN returned : Cardinality(returned[args]) <= 1

\* C20: the verification cache is keyed by the pair (id, hash): the answer
\* cached for one pair is never returned for another pair, so the value verify
\* returns always equals what the hash check computes for the arguments given.
C20_AnswerIsTheHashCheckOfItsArguments ==
    last.op = "verify" =>
        last.ret = _verify_hash_integrity(last.value.items[1], last.value.items[2])

\* C14: an order-book snapshot taken while submissions and cancellations run
\* concurrently equals the book as it stood at one instant between complete
\* writer operations; in particular its reported total buy and sell volumes
\* equal the sums of the quantities of the entries it returns.
C14_SnapshotTotalsMatchEntries ==
    snap.pc = "done" =>
        /\ snap.total_buy_volume = SumQuantity(snap.buy_orders)
        /\ snap.total_sell_volume = SumQuantity(snap.sell_orders)

----------------------------------------------------------------------------
\* C21: the verification cache is bounded: after any sequence of verify calls
\* the number of cached entries never exceeds the configured capacity.
C21_CacheIsBounded ==
    Cardinality(DOMAIN verification_cache) <= verifyCacheCapacity

----------------------------------------------------------------------------
AdmittedBefore(id1, id2) == id1 < id2
    \* ids are handed out in admission order (AdmitTrade), so the earlier
    \* admitted order has the smaller id

StrictlyBetter(x, y, order_type) ==
    IF order_type = "buy" THEN x.price > y.price ELSE x.price < y.price

\* C22: in every (category, side) book, for any two entries X before Y,
\* either X's price is strictly better (higher for buy, lower for sell) or
\* the prices are equal and X was admitted before Y.
C22_BookIsInPriceThenAdmissionOrder ==
    \A e \in DOMAIN books : \A s \in ValidOrderTypes :
        \A k \in 1 .. Len(books[e][s]) : \A m \in (k + 1) .. Len(books[e][s]) :
            LET X == books[e][s][k]
                Y == books[e][s][m]
            IN  \/ StrictlyBetter(X, Y, s)
                \/ (X.price = Y.price /\ AdmittedBefore(X.id, Y.id))

----------------------------------------------------------------------------
\* C23: after any sequence of insert and remove calls (inserting the same
\* order twice included) each order id appears at most once across all
\* (category, side) books.
C23_NoDuplicateIdsInBooks ==
    \A order \in BookOrderInputs : Cardinality(BookEntries(books, order.id)) <= 1

----------------------------------------------------------------------------
Prices(s) == {s[k].price : k \in 1 .. Len(s)}

HighestOrNone(S) == IF S = {} THEN None ELSE CHOOSE p \in S : \A q \in S : q <= p

LowestOrNone(S) == IF S = {} THEN None ELSE CHOOSE p \in S : \A q \in S : p <= q

\* C24: get_best_bid_ask of a known category always returns a result in
\* which best_bid is the highest price among the resting buy orders (null
\* when there are none), best_ask the lowest price among the resting sell
\* orders (null when there are none), and spread = best_ask - best_bid
\* whenever both exist.
C24_BestBidAskOfTheBook ==
    (last.op = "get_best_bid_ask" /\ last.id \in DOMAIN books) =>
        LET bid == HighestOrNone(Prices(books[last.id]["buy"]))
            ask == LowestOrNone(Prices(books[last.id]["sell"]))
        IN  /\ last.raised = ""
            /\ last.value.type = "dict"
            /\ last.value.best_bid = bid
            /\ last.value.best_ask = ask
            /\ (bid # None /\ ask # None) => last.value.spread = ask - bid

----------------------------------------------------------------------------
InvalidSubmission(data) ==
    \/ data.energy_type \notin {"solar", "wind", "hydro", "biomass"}
    \/ data.order_type \notin {"buy", "sell"}
    \/ data.quantity <= 0
    \/ data.price <= 0
    \/ data.user_id = ""

\* C25: a submission whose category is not one of solar/wind/hydro/biomass,
\* whose side is not buy/sell, whose quantity or price is <= 0, or whose
\* user id is empty is rejected with a validation error, and the registry
\* and the books are exactly as before the call.
C25_InvalidSubmissionIsRejected ==
    [][\A data \in SubmitInputs :
          (InvalidSubmission(data) /\ (RejectTrade(data) \/ AdmitTrade(data))) =>
              /\ last'.code = 400
              /\ transactions' = transactions
              /\ books' = books]_vars

----------------------------------------------------------------------------
CleanupStep == last'.op = "cleanup" /\ now' # now

\* C26: every order that was pending or matched when a cleanup ran is still
\* in the registry after it, whatever its age and whatever the horizon; only
\* orders older than the horizon are removed.
C26_CleanupKeepsLiveOrders ==
    [][CleanupStep =>
          LET days == last'.value.items[1]
              t == last'.value.items[2]
          IN  \A k \in 1 .. Len(transactions) :
                  LET o == transactions[k] IN
                  /\ o.status \in {"pending", "matched"} => o \in Range(transactions')
                  /\ o \notin Range(transactions') => t - o.created_at > days]_vars

----------------------------------------------------------------------------
CancelledAfterMatch(txs) ==
    \* cancelled orders that had a counterparty when they were cancelled
    Cardinality({k \in 1 .. Len(txs) :
                    txs[k].status = "cancelled" /\ txs[k].matched_with # None})

\* C27: the reported success rate equals
\* completed / (completed + failed + cancelled-after-match) as a percentage
\* (no order of the registry has a failed state); orders that are still
\* pending, still matched or were cancelled while pending do not lower it.
C27_SuccessRateOverSettledOrders ==
    last.op = "get_statistics" =>
        LET completed == CountStatus(transactions, "completed")
            settled == completed + CountStatus(transactions, "failed")
                           + CancelledAfterMatch(transactions)
        IN  settled > 0 =>
                last.value.success_rate_percentage = Round2(completed * 100, settled)

----------------------------------------------------------------------------
IsMatched(id) == Known(transactions, id) /\ OrderOf(transactions, id).status = "matched"

\* C28: matched is a transient state: under fair scheduling every order that
\* enters state matched eventually leaves it (completed, pending again or
\* cancelled), also when the deployment or the execution of its contract
\* raises an error.
C28_MatchedIsTransient ==
    \A id \in IdInputs : IsMatched(id) ~> ~IsMatched(id)

----------------------------------------------------------------------------
VerifiedIds == {args[1] : args \in DOMAIN returned}
    \* the contract ids verify has been called for

\* C29: the recorded verification status of a contract id agrees with the
\* most recent verify call for that id: right after verify(id, h) the
\* status of id is verified, with hash h, if the call returned true and
\* failed if it returned false, whether the call was answered from the cache
\* or evaluated afresh; the status is unverified iff verify was never called
\* for the id.
C29_StatusFollowsTheLastVerify ==
    /\ last.op = "verify" =>
           LET contract_id == last.value.items[1]
               transaction_hash == last.value.items[2]
               status == get_verification_status(verified_contracts, contract_id)
           IN  /\ status.status = IF last.ret THEN "verified" ELSE "failed"
               /\ status.verified = last.ret
               /\ last.ret => status.transaction_hash = transaction_hash
    /\ \A contract_id \in VerifyIdInputs :
           get_verification_status(verified_contracts, contract_id).status = "unverified"
               <=> contract_id \notin VerifiedIds

----------------------------------------------------------------------------
InWindow(client_id) ==
    \* the recorded requests of the client inside the current window
    {k \in 1 .. Len(rate_limit_storage[client_id]) :
        rate_limit_storage[client_id][k] > now - RATE_LIMIT_WINDOW}

\* C30: for each client, the number of requests recorded with timestamps
\* inside the current RATE_LIMIT_WINDOW never exceeds
\* RATE_LIMIT_MAX_REQUESTS, also when several requests of the client are
\* checked and recorded concurrently by different threads.
C30_RateLimitBound ==
    \A client_id \in Clients :
        Cardinality(InWindow(client_id)) <= RATE_LIMIT_MAX_REQUESTS

====
